---- MODULE Spec2Model ----
(***************************************************************************)
(* A model of the WebSub-style hub of src/hub/main.go: the subscribe       *)
(* handler with its challenge verification, the registry of verified       *)
(* subscribers guarded by verifiedSubscribersMutex, and the publish        *)
(* handler with its concurrent signed deliveries.                          *)
(*                                                                         *)
(* Every inbound HTTP request is handled on its own goroutine (net/http),  *)
(* so each request is a task with a program counter; each delivery is a    *)
(* goroutine spawned by the publish loop.  A step is one stretch of code   *)
(* between two points where other tasks can be observed: a network round   *)
(* trip, a lock operation, or an access to the shared slice.               *)
(***************************************************************************)
EXTENDS Naturals, Sequences, FiniteSets, TLC

(***************************************************************************)
(* Bounds of the model.                                                    *)
(***************************************************************************)
\* number of requests to the subscribe endpoint "/"
MaxSubscribe == 2
\* number of requests to the publish endpoint "/publish"
MaxPublish == 2
\* the outcomes of crypto/rand are drawn from the fills 0..MaxSeed
MaxSeed == 1

SubIds == 1..MaxSubscribe
PubIds == 1..MaxPublish

(***************************************************************************)
(* Program constants.                                                      *)
(***************************************************************************)
\* generateRandomString(16)
ChallengeBytes == 16
\* the status of the first write to w (fmt.Fprint, fmt.Fprintf)
StatusOK == 200
\* http.StatusBadRequest
StatusBadRequest == 400
\* http.StatusMethodNotAllowed
StatusMethodNotAllowed == 405

(***************************************************************************)
(* Values.                                                                 *)
(***************************************************************************)
\* type subscriber struct { callbackURL, secret, topic string }
subscriber(callbackURL, secret, topic) ==
    [callbackURL |-> callbackURL, secret |-> secret, topic |-> topic]

\* the zero value of subscriber
NoSub == subscriber("", "", "")

\* A request body as url.ParseQuery sees it: either it does not parse, or
\* it is a list of key/value pairs (a key may be absent, a value empty).
Form(pairs) == [parseErr |-> FALSE, pairs |-> pairs]
BadBody == [parseErr |-> TRUE, pairs |-> <<>>]

ValidBody1 ==
    Form(<< <<"hub.callback", "http://sub1/cb">>, <<"hub.secret", "s1">>,
            <<"hub.topic", "t1">> >>)
ValidBody2 ==
    Form(<< <<"hub.callback", "http://sub2/cb">>, <<"hub.secret", "s2">>,
            <<"hub.topic", "t1">> >>)
\* no hub.callback
NoCallbackBody == Form(<< <<"hub.secret", "s1">>, <<"hub.topic", "t1">> >>)
\* an empty hub.topic
EmptyTopicBody ==
    Form(<< <<"hub.callback", "http://sub1/cb">>, <<"hub.secret", "s1">>,
            <<"hub.topic", "">> >>)
\* no hub.secret
NoSecretBody ==
    Form(<< <<"hub.callback", "http://sub1/cb">>, <<"hub.topic", "t1">> >>)
\* an empty hub.secret
EmptySecretBody ==
    Form(<< <<"hub.callback", "http://sub2/cb">>, <<"hub.secret", "">>,
            <<"hub.topic", "t1">> >>)

\* the requests the model sends to "/": a method and a body
Request(method, body) == [method |-> method, body |-> body]
SubscribeRequests ==
    { Request("POST", b) :
        b \in {BadBody, ValidBody1, ValidBody2, NoCallbackBody, EmptyTopicBody,
               NoSecretBody, EmptySecretBody} }
    \cup { Request("GET", ValidBody1), Request("GET", NoCallbackBody) }

\* the methods of the requests the model sends to "/publish"
PublishMethods == {"GET", "POST"}

\* url.Values.Get: the first value of the key, "" when the key is absent
RECURSIVE Get(_, _)
Get(pairs, key) ==
    IF pairs = <<>> THEN ""
    ELSE IF Head(pairs)[1] = key THEN Head(pairs)[2]
    ELSE Get(Tail(pairs), key)

\* encoding/hex
HexDigits == <<"0", "1", "2", "3", "4", "5", "6", "7",
               "8", "9", "a", "b", "c", "d", "e", "f">>
RECURSIVE EncodeToString(_)
EncodeToString(bytes) ==
    IF bytes = <<>> THEN ""
    ELSE HexDigits[(Head(bytes) \div 16) + 1] \o HexDigits[(Head(bytes) % 16) + 1]
         \o EncodeToString(Tail(bytes))

\* crypto/rand.Read(bytes): an error, or the n bytes filled; the fills the
\* model draws from are indexed by a seed
RandFill(seed, n) == [i \in 1..n |-> (seed * 167 + i * 29) % 256]
RandErr == [err |-> TRUE, bytes |-> <<>>]
RandReads(n) ==
    {RandErr} \cup {[err |-> FALSE, bytes |-> RandFill(s, n)] : s \in 0..MaxSeed}

\* generateRandomString(n), given the outcome of rand.Read
generateRandomString(read) ==
    IF read.err THEN [err |-> TRUE, str |-> ""]
    ELSE [err |-> FALSE, str |-> EncodeToString(read.bytes)]

\* values.Encode() of verifySubscriber: the pairs sorted by key
VerificationQuery(topic, challenge) ==
    << <<"hub.challenge", challenge>>, <<"hub.mode", "subscribe">>,
       <<"hub.topic", topic>> >>

\* the challenge GET of verifySubscriber: callbackURL + "?" + query
VerificationRequest(sub, challenge) ==
    [url |-> sub.callbackURL, query |-> VerificationQuery(sub.topic, challenge)]

NoRequest == [url |-> "", query |-> <<>>]

\* What http.Get and ioutil.ReadAll can give verifySubscriber back for the
\* GET g: a transport error, or a response with a status and a body, whose
\* read may fail.  The bodies are what a callback may answer: the echo of
\* hub.challenge, nothing, the echo followed by a newline, another token, a
\* not-found page.
ChallengeReplies(g) ==
    LET c == Get(g.query, "hub.challenge")
        Reply(status, body, readErr) ==
            [err |-> FALSE, status |-> status, body |-> body, readErr |-> readErr]
    IN  { [err |-> TRUE, status |-> 0, body |-> "", readErr |-> FALSE],
          Reply(StatusOK, c, FALSE),
          Reply(StatusOK, c, TRUE),
          Reply(StatusOK, "", FALSE),
          Reply(StatusOK, c \o "\n", FALSE),
          Reply(404, c, FALSE),
          Reply(404, "404 page not found\n", FALSE) }
       \cup { Reply(StatusOK, EncodeToString(RandFill(s, ChallengeBytes)), FALSE) :
                s \in 0..MaxSeed }

(***************************************************************************)
(* State.                                                                  *)
(***************************************************************************)
VARIABLES
    verifiedSubscribers,       \* var verifiedSubscribers []subscriber
    verifiedSubscribersMutex,  \* the task holding the mutex, or NoTask
    sreq,                      \* the tasks of getSubscriberRequest
    preq,                      \* the tasks of publishContent
    deliv                      \* the delivery goroutines of each publish

vars == <<verifiedSubscribers, verifiedSubscribersMutex, sreq, preq, deliv>>

NoTask == <<"none", 0>>
SubTask(i) == <<"subscribe", i>>
PubTask(p) == <<"publish", p>>

\* A subscribe task before its request has arrived, and its locals.  resp is
\* what the handler has written to w, which net/http buffers; returned tells
\* that the handler has returned, which is when net/http completes the
\* response to the caller.
IdleSubscribe ==
    [pc |-> "idle", method |-> "", body |-> Form(<<>>),
     sub |-> NoSub, challenge |-> "", get |-> NoRequest, tmp |-> <<>>,
     resp |-> <<>>, returned |-> FALSE,
     \* history: the challenge GETs sent, what the callback answered and
     \* with which status, the entries this task appended
     gets |-> 0, answered |-> "none", status |-> 0, appends |-> 0]

\* a publish task before its request has arrived, and its locals
IdlePublish ==
    [pc |-> "idle", method |-> "", jsonData |-> "", verifiedSubsCopy |-> <<>>,
     next |-> 1, resp |-> <<>>, returned |-> FALSE,
     \* history: whether the copy was taken, and the registry at that instant
     taken |-> FALSE, snapshot |-> <<>>]

Init ==
    /\ verifiedSubscribers = <<>>
    /\ verifiedSubscribersMutex = NoTask
    /\ sreq = [i \in SubIds |-> IdleSubscribe]
    /\ preq = [p \in PubIds |-> IdlePublish]
    /\ deliv = [p \in PubIds |-> <<>>]

(***************************************************************************)
(* sync.Mutex                                                              *)
(***************************************************************************)
\* a mutex that excludes nobody
CanLockAlways == TRUE

\* Lock() returns only when no task holds the mutex
CanLock == verifiedSubscribersMutex = NoTask

(***************************************************************************)
(* getSubscriberRequest and verifySubscriber                               *)
(***************************************************************************)
\* http.Error(w, text, code), fmt.Fprint(w, text): what the handler wrote
Response(code, text) == <<[status |-> code, text |-> text]>>

\* a validation that lets an empty callback through
ValidAnyCallback(callbackURL, secret, topic) ==
    ~(topic = "" \/ secret = "")

\* the validation that asks for a callback and a topic only
ValidAnySecret(callbackURL, secret, topic) ==
    ~(callbackURL = "" \/ topic = "")

\* the negation of the condition of line 44
Valid(callbackURL, secret, topic) ==
    ~(callbackURL = "" \/ topic = "" \/ secret = "")

\* a comparison that accepts a body that starts with the challenge
MatchesPrefix(body, challenge) ==
    body \in {challenge, challenge \o "\n"}

\* the negation of the condition of line 87: string(body) != challenge
Matches(body, challenge) == body = challenge

\* the handler returns: net/http finishes the response and the locals die
Return(t) ==
    [t EXCEPT !.pc = "done", !.returned = TRUE, !.sub = NoSub,
              !.challenge = "", !.get = NoRequest, !.tmp = <<>>]

\* Lines 26-72: a request arrives and is handled up to the first point where
\* the handler gives up or waits for the callback.  read is the outcome of
\* crypto/rand for this attempt.
Arrive(t, method, body, read) ==
    LET a == [t EXCEPT !.method = method, !.body = body]
        callbackURL == Get(body.pairs, "hub.callback")
        secret == Get(body.pairs, "hub.secret")
        topic == Get(body.pairs, "hub.topic")
        newSubscriber == subscriber(callbackURL, secret, topic)
        gen == generateRandomString(read)
    IN  IF method # "POST"
        THEN Return([a EXCEPT !.resp = Response(StatusMethodNotAllowed,
                                                "Only POST method is allowed")])
        ELSE IF body.parseErr
        THEN Return([a EXCEPT !.resp = Response(StatusBadRequest, "can't parse body")])
        ELSE IF ~Valid(callbackURL, secret, topic)
        THEN Return([a EXCEPT !.resp = Response(StatusBadRequest,
                                                "Missing subscriber data")])
        ELSE LET w == [a EXCEPT !.resp = Response(StatusOK,
                                                  "Subscription request received."),
                                !.sub = newSubscriber]
             IN  IF gen.err
                 THEN Return(w)
                 ELSE [w EXCEPT !.pc = "awaitChallenge",
                                !.challenge = gen.str,
                                !.get = VerificationRequest(newSubscriber, gen.str),
                                !.gets = @ + 1]

\* whether the handling of this request reads crypto/rand
ReachesVerify(method, body) ==
    /\ method = "POST"
    /\ ~body.parseErr
    /\ Valid(Get(body.pairs, "hub.callback"), Get(body.pairs, "hub.secret"),
             Get(body.pairs, "hub.topic"))

\* The step of a request's arrival; the requests are numbered in the order
\* of their arrival.  lockFirst tells whether verifySubscriber takes the
\* mutex before it sends the challenge GET (the code does not).
SubscribeStep(i, lockFirst) ==
    /\ sreq[i].pc = "idle"
    /\ IF i = 1 THEN TRUE ELSE sreq[i - 1].pc # "idle"
    /\ \E r \in SubscribeRequests :
         \E read \in IF ReachesVerify(r.method, r.body)
                     THEN RandReads(ChallengeBytes) ELSE {RandErr} :
            LET t == Arrive(sreq[i], r.method, r.body, read)
            IN  /\ sreq' = [sreq EXCEPT ![i] = t]
                /\ IF lockFirst /\ t.pc = "awaitChallenge"
                   THEN CanLock /\ verifiedSubscribersMutex' = SubTask(i)
                   ELSE UNCHANGED verifiedSubscribersMutex
    /\ UNCHANGED <<verifiedSubscribers, preq, deliv>>

\* verifySubscriber holding the mutex across the challenge GET
SubscribeRequestLocked(i) == SubscribeStep(i, TRUE)

SubscribeRequest(i) == SubscribeStep(i, FALSE)

\* a verification that sends its challenge GET once more after a transport
\* error
AnsweredRetry(t, r) ==
    LET h == [t EXCEPT !.get = NoRequest,
                       !.status = r.status,
                       !.answered =
                           IF r.err THEN "transport error"
                           ELSE IF r.readErr THEN "read error"
                           ELSE IF r.body = Get(t.get.query, "hub.challenge")
                           THEN "echo" ELSE "other"]
    IN  IF r.err /\ t.gets < 2 THEN [t EXCEPT !.gets = @ + 1]
        ELSE IF r.err \/ r.readErr THEN Return(h)
        ELSE IF ~Matches(r.body, t.challenge) THEN Return(h)
        ELSE [h EXCEPT !.pc = "lock"]

\* a verification that reports its failure to the caller of the handler
AnsweredSurfaced(t, r) ==
    LET h == [t EXCEPT !.get = NoRequest,
                       !.status = r.status,
                       !.answered =
                           IF r.err THEN "transport error"
                           ELSE IF r.readErr THEN "read error"
                           ELSE IF r.body = Get(t.get.query, "hub.challenge")
                           THEN "echo" ELSE "other"]
    IN  IF r.err \/ r.readErr \/ ~Matches(r.body, t.challenge)
        THEN Return([h EXCEPT !.resp = Response(502, "Verification failed")])
        ELSE [h EXCEPT !.pc = "lock"]

\* Lines 72-90: http.Get returns with reply r; the body is read and compared
Answered(t, r) ==
    LET h == [t EXCEPT !.get = NoRequest,
                       !.status = r.status,
                       !.answered =
                           IF r.err THEN "transport error"
                           ELSE IF r.readErr THEN "read error"
                           ELSE IF r.body = Get(t.get.query, "hub.challenge")
                           THEN "echo" ELSE "other"]
    IN  IF r.err \/ r.readErr THEN Return(h)
        ELSE IF ~Matches(r.body, t.challenge) THEN Return(h)
        ELSE [h EXCEPT !.pc = "lock"]

ChallengeReply(i) ==
    /\ sreq[i].pc = "awaitChallenge"
    /\ \E r \in ChallengeReplies(sreq[i].get) :
         sreq' = [sreq EXCEPT ![i] = Answered(sreq[i], r)]
    /\ UNCHANGED <<verifiedSubscribers, verifiedSubscribersMutex, preq, deliv>>

\* Line 91: verifiedSubscribersMutex.Lock(); then append reads the slice
VerifyLock(i) ==
    /\ sreq[i].pc = "lock"
    /\ CanLock
    /\ verifiedSubscribersMutex' = SubTask(i)
    /\ sreq' = [sreq EXCEPT ![i].pc = "append", ![i].tmp = verifiedSubscribers]
    /\ UNCHANGED <<verifiedSubscribers, preq, deliv>>

\* an append that skips a subscriber the registry already holds
VerifyAppendDedup(i) ==
    /\ sreq[i].pc = "append"
    /\ verifiedSubscribers' =
           IF \E k \in DOMAIN sreq[i].tmp : sreq[i].tmp[k] = sreq[i].sub
           THEN sreq[i].tmp
           ELSE Append(sreq[i].tmp, sreq[i].sub)
    /\ sreq' = [sreq EXCEPT ![i].pc = "unlock", ![i].appends = @ + 1]
    /\ UNCHANGED <<verifiedSubscribersMutex, preq, deliv>>

\* an assignment that keeps only the new subscriber
VerifyAppendReplace(i) ==
    /\ sreq[i].pc = "append"
    /\ verifiedSubscribers' = <<sreq[i].sub>>
    /\ sreq' = [sreq EXCEPT ![i].pc = "unlock", ![i].appends = @ + 1]
    /\ UNCHANGED <<verifiedSubscribersMutex, preq, deliv>>

\* Line 92: verifiedSubscribers = append(verifiedSubscribers, sub)
VerifyAppend(i) ==
    /\ sreq[i].pc = "append"
    /\ verifiedSubscribers' = Append(sreq[i].tmp, sreq[i].sub)
    /\ sreq' = [sreq EXCEPT ![i].pc = "unlock", ![i].appends = @ + 1]
    /\ UNCHANGED <<verifiedSubscribersMutex, preq, deliv>>

\* a verifySubscriber that returns without Unlock()
VerifyUnlockKeep(i) ==
    /\ sreq[i].pc = "unlock"
    /\ sreq' = [sreq EXCEPT ![i] = Return(sreq[i])]
    /\ UNCHANGED <<verifiedSubscribers, verifiedSubscribersMutex, preq, deliv>>

\* Lines 93-96 and 54: Unlock(), verifySubscriber and the handler return
VerifyUnlock(i) ==
    /\ sreq[i].pc = "unlock"
    /\ verifiedSubscribersMutex' = NoTask
    /\ sreq' = [sreq EXCEPT ![i] = Return(sreq[i])]
    /\ UNCHANGED <<verifiedSubscribers, preq, deliv>>

(***************************************************************************)
(* publishContent                                                          *)
(***************************************************************************)
\* json.Marshal(map[string]string{"message": "New content available"})
Marshal == "{\"message\":\"New content available\"}"

\* a publish handler that does not look at the method
PublishRequestAnyMethod(p) ==
    /\ preq[p].pc = "idle"
    /\ IF p = 1 THEN TRUE ELSE preq[p - 1].pc # "idle"
    /\ \E method \in PublishMethods :
         preq' = [preq EXCEPT ![p] =
            [@ EXCEPT !.method = method, !.pc = "lock", !.jsonData = Marshal]]
    /\ UNCHANGED <<verifiedSubscribers, verifiedSubscribersMutex, sreq, deliv>>

\* Lines 125-141: a publish request arrives.  json.Marshal of a
\* map[string]string cannot fail, so the 500 of lines 137-141 is not taken.
PublishRequest(p) ==
    /\ preq[p].pc = "idle"
    /\ IF p = 1 THEN TRUE ELSE preq[p - 1].pc # "idle"
    /\ \E method \in PublishMethods :
         preq' = [preq EXCEPT ![p] =
            IF method # "GET"
            THEN [@ EXCEPT !.method = method, !.pc = "done", !.returned = TRUE,
                           !.resp = Response(StatusMethodNotAllowed,
                                             "Method not allowed")]
            ELSE [@ EXCEPT !.method = method, !.pc = "lock", !.jsonData = Marshal]]
    /\ UNCHANGED <<verifiedSubscribers, verifiedSubscribersMutex, sreq, deliv>>

\* make([]subscriber, n): n zero values
make(n) == [k \in 1..n |-> NoSub]

\* copy(dst, src): the first min(len(dst), len(src)) elements of src
copy(dst, src) ==
    [k \in 1..Len(dst) |-> IF k <= Len(src) THEN src[k] ELSE dst[k]]

\* Lines 143-145: Lock(), then make with the length of the registry
PublishLock(p) ==
    /\ preq[p].pc = "lock"
    /\ CanLock
    /\ verifiedSubscribersMutex' = PubTask(p)
    /\ preq' = [preq EXCEPT ![p].pc = "copy",
                            ![p].verifiedSubsCopy = make(Len(verifiedSubscribers))]
    /\ UNCHANGED <<verifiedSubscribers, sreq, deliv>>

\* Line 146: copy(verifiedSubsCopy, verifiedSubscribers)
PublishCopy(p) ==
    /\ preq[p].pc = "copy"
    /\ preq' = [preq EXCEPT ![p].pc = "unlock",
                            ![p].verifiedSubsCopy = copy(@, verifiedSubscribers),
                            ![p].taken = TRUE,
                            ![p].snapshot = verifiedSubscribers]
    /\ UNCHANGED <<verifiedSubscribers, verifiedSubscribersMutex, sreq, deliv>>

\* Line 148: Unlock()
PublishUnlock(p) ==
    /\ preq[p].pc = "unlock"
    /\ verifiedSubscribersMutex' = NoTask
    /\ preq' = [preq EXCEPT ![p].pc = "range"]
    /\ UNCHANGED <<verifiedSubscribers, sreq, deliv>>

\* a loop over the registry itself, re-read at every iteration
RemainingLive(t) == SubSeq(verifiedSubscribers, t.next, Len(verifiedSubscribers))

\* Line 151: what the loop over verifiedSubsCopy has still to visit
Remaining(t) == SubSeq(t.verifiedSubsCopy, t.next, Len(t.verifiedSubsCopy))

\* a goroutine of lines 152-155 that has not run yet, with its argument
\* and the jsonData it closes over
NewDelivery(sub, jsonData) ==
    [sub |-> sub, jsonData |-> jsonData, pc |-> "start",
     post |-> <<>>,
     \* history: the POSTs sent, the POSTs the callback received, the
     \* fetches of the collaborator's log
     posts |-> 0, received |-> 0, logs |-> 0]

\* Lines 151-156: one iteration of the loop starts a goroutine
PublishSpawn(p) ==
    /\ preq[p].pc = "range"
    /\ Remaining(preq[p]) # <<>>
    /\ deliv' = [deliv EXCEPT ![p] =
                    Append(@, NewDelivery(Head(Remaining(preq[p])), preq[p].jsonData))]
    /\ preq' = [preq EXCEPT ![p].next = @ + 1]
    /\ UNCHANGED <<verifiedSubscribers, verifiedSubscribersMutex, sreq>>

\* the count computed from the registry when the response is written
PublishedCountLive(t) == Len(verifiedSubscribers)

\* Line 158: len(verifiedSubsCopy)
PublishedCount(t) == Len(t.verifiedSubsCopy)

\* a handler that waits for its deliveries, as with a sync.WaitGroup, before
\* it writes the response
PublishRespondWaits(p) ==
    /\ preq[p].pc = "range"
    /\ Remaining(preq[p]) = <<>>
    /\ \A k \in DOMAIN deliv[p] : deliv[p][k].pc = "done"
    /\ preq' = [preq EXCEPT ![p] =
          [@ EXCEPT !.pc = "done", !.returned = TRUE,
                    !.verifiedSubsCopy = <<>>, !.jsonData = "",
                    !.resp = <<[status |-> StatusOK,
                                text |-> "Content published to %d verified subscribers.\n",
                                count |-> PublishedCount(preq[p])]>>]]
    /\ UNCHANGED <<verifiedSubscribers, verifiedSubscribersMutex, sreq, deliv>>

\* Lines 158-159: the response is written and the handler returns
PublishRespond(p) ==
    /\ preq[p].pc = "range"
    /\ Remaining(preq[p]) = <<>>
    /\ preq' = [preq EXCEPT ![p] =
          [@ EXCEPT !.pc = "done", !.returned = TRUE,
                    !.verifiedSubsCopy = <<>>, !.jsonData = "",
                    !.resp = <<[status |-> StatusOK,
                                text |-> "Content published to %d verified subscribers.\n",
                                count |-> PublishedCount(preq[p])]>>]]
    /\ UNCHANGED <<verifiedSubscribers, verifiedSubscribersMutex, sreq, deliv>>

(***************************************************************************)
(* The delivery goroutines: createSignature and sendSignedContent          *)
(***************************************************************************)
\* createSignature(secret, message): the hex of the HMAC-SHA256 of message
\* under secret.  The digest is not computed: the model keeps the MAC as the
\* term of its key and its message, so two MACs are equal exactly when both
\* are.
createSignature(secret, message) ==
    "hmac-sha256(" \o secret \o ")(" \o message \o ")"

\* a delivery signed with the callback URL for a key
DeliveryRequestWrongKey(sub, jsonData) ==
    [url |-> sub.callbackURL, body |-> jsonData,
     contentType |-> "application/json",
     signature |-> "sha256=" \o createSignature(sub.callbackURL, jsonData)]

\* Lines 153 and 164-173: the POST of a delivery
DeliveryRequest(sub, jsonData) ==
    [url |-> sub.callbackURL, body |-> jsonData,
     contentType |-> "application/json",
     signature |-> "sha256=" \o createSignature(sub.secret, jsonData)]

\* deliveries made one after the other: a POST is sent only when the
\* deliveries to the entries before it have ended
DeliverySendInOrder(p, k) ==
    /\ k \in DOMAIN deliv[p]
    /\ deliv[p][k].pc = "start"
    /\ \A j \in 1..(k - 1) : deliv[p][j].pc = "done"
    /\ deliv' = [deliv EXCEPT ![p][k] =
          [@ EXCEPT !.pc = "post", !.posts = @ + 1,
                    !.post = <<DeliveryRequest(deliv[p][k].sub,
                                               deliv[p][k].jsonData)>>]]
    /\ UNCHANGED <<verifiedSubscribers, verifiedSubscribersMutex, sreq, preq>>

\* Lines 153-176: the goroutine runs up to client.Do.  http.NewRequest
\* fails only on a callback URL that does not parse, and the challenge GET
\* of an admitted subscriber was sent to that same URL, so the return of
\* lines 166-169 is not taken.
DeliverySend(p, k) ==
    /\ k \in DOMAIN deliv[p]
    /\ deliv[p][k].pc = "start"
    /\ deliv' = [deliv EXCEPT ![p][k] =
          [@ EXCEPT !.pc = "post", !.posts = @ + 1,
                    !.post = <<DeliveryRequest(deliv[p][k].sub,
                                               deliv[p][k].jsonData)>>]]
    /\ UNCHANGED <<verifiedSubscribers, verifiedSubscribersMutex, sreq, preq>>

\* What client.Do can return: the callback received the POST and answered
\* with some status, or a transport error with the POST not received.
DeliveryOutcomes == {"answered", "transport error"}

\* a delivery that is sent again after a transport error
AfterPostRetry(d, outcome) ==
    IF outcome = "transport error"
    THEN [d EXCEPT !.pc = "start", !.post = <<>>]
    ELSE [d EXCEPT !.pc = "log", !.post = <<>>, !.received = @ + 1, !.logs = @ + 1]

\* a delivery that fetches the collaborator's log after a transport error
\* too
AfterPostLogAlways(d, outcome) ==
    IF outcome = "transport error"
    THEN [d EXCEPT !.pc = "log", !.post = <<>>, !.logs = @ + 1]
    ELSE [d EXCEPT !.pc = "log", !.post = <<>>, !.received = @ + 1, !.logs = @ + 1]

\* Lines 176-184: client.Do returns; on an error the goroutine ends, else
\* it goes on to fetchSubscriberLogs
AfterPost(d, outcome) ==
    IF outcome = "transport error"
    THEN [d EXCEPT !.pc = "done", !.post = <<>>]
    ELSE [d EXCEPT !.pc = "log", !.post = <<>>, !.received = @ + 1, !.logs = @ + 1]

DeliveryReply(p, k) ==
    /\ k \in DOMAIN deliv[p]
    /\ deliv[p][k].pc = "post"
    /\ \E outcome \in DeliveryOutcomes :
         deliv' = [deliv EXCEPT ![p][k] = AfterPost(@, outcome)]
    /\ UNCHANGED <<verifiedSubscribers, verifiedSubscribersMutex, sreq, preq>>

\* Lines 215-231: the GET of the collaborator's /log returns, with an error
\* or with a body that is logged
FetchLogsReturn(p, k) ==
    /\ k \in DOMAIN deliv[p]
    /\ deliv[p][k].pc = "log"
    /\ deliv' = [deliv EXCEPT ![p][k].pc = "done"]
    /\ UNCHANGED <<verifiedSubscribers, verifiedSubscribersMutex, sreq, preq>>

(***************************************************************************)
(* The specification                                                       *)
(***************************************************************************)
Next ==
    \/ \E i \in SubIds : SubscribeRequest(i)
    \/ \E i \in SubIds : ChallengeReply(i)
    \/ \E i \in SubIds : VerifyLock(i)
    \/ \E i \in SubIds : VerifyAppend(i)
    \/ \E i \in SubIds : VerifyUnlock(i)
    \/ \E p \in PubIds : PublishRequest(p)
    \/ \E p \in PubIds : PublishLock(p)
    \/ \E p \in PubIds : PublishCopy(p)
    \/ \E p \in PubIds : PublishUnlock(p)
    \/ \E p \in PubIds : PublishSpawn(p)
    \/ \E p \in PubIds : PublishRespond(p)
    \/ \E p \in PubIds, k \in 1..(MaxSubscribe + 1) : DeliverySend(p, k)
    \/ \E p \in PubIds, k \in 1..(MaxSubscribe + 1) : DeliveryReply(p, k)
    \/ \E p \in PubIds, k \in 1..(MaxSubscribe + 1) : FetchLogsReturn(p, k)

Spec == Init /\ [][Next]_vars

\* The Go scheduler runs every goroutine that can run: a step of the hub's
\* own code that stays enabled is taken.  Nothing makes a request arrive, a
\* callback answer its challenge GET or its delivery POST, or the
\* collaborator answer the GET of its log.
Fairness ==
    /\ \A i \in SubIds :
         WF_vars(VerifyLock(i)) /\ WF_vars(VerifyAppend(i)) /\ WF_vars(VerifyUnlock(i))
    /\ \A p \in PubIds :
         /\ WF_vars(PublishLock(p)) /\ WF_vars(PublishCopy(p))
         /\ WF_vars(PublishUnlock(p)) /\ WF_vars(PublishSpawn(p))
         /\ WF_vars(PublishRespond(p))
         /\ \A k \in 1..(MaxSubscribe + 1) : WF_vars(DeliverySend(p, k))

FairSpec == Spec /\ Fairness

(***************************************************************************)
(* Properties                                                              *)
(***************************************************************************)
\* the subscriber a request asks to register
SubOf(i) ==
    subscriber(Get(sreq[i].body.pairs, "hub.callback"),
               Get(sreq[i].body.pairs, "hub.secret"),
               Get(sreq[i].body.pairs, "hub.topic"))

\* the number of entries of the registry equal to sub
Count(sub) ==
    Cardinality({k \in DOMAIN verifiedSubscribers : verifiedSubscribers[k] = sub})

\* the requests whose callback echoed the challenge of their own GET
Echoed == {i \in SubIds : sreq[i].answered = "echo"}

\* the publish requests that have been answered with a count
Reported == {p \in PubIds : preq[p].resp # <<>> /\ preq[p].resp[1].status = StatusOK}

\* C1: a verification attempt appends its subscriber exactly when the body
\* of the answer to its challenge GET equals the challenge of that GET: an
\* attempt that ends in a transport error, a read error or another body
\* (the empty one included) appends nothing, one that was echoed has
\* appended once when it returns, and every entry of the registry is the
\* subscriber of an attempt that was echoed.
C1_AppendIffEchoed ==
    /\ \A i \in SubIds :
         /\ sreq[i].appends <= 1
         /\ sreq[i].appends = 1 => sreq[i].answered = "echo"
         /\ (sreq[i].pc = "done" /\ sreq[i].answered = "echo") => sreq[i].appends = 1
    /\ Len(verifiedSubscribers) = Cardinality({i \in SubIds : sreq[i].appends = 1})
    /\ \A k \in DOMAIN verifiedSubscribers :
         \E i \in Echoed : sreq[i].appends = 1 /\ SubOf(i) = verifiedSubscribers[k]

\* one attempt was echoed and has appended, another got a body that is not
\* its challenge and has returned without appending
C1_Witness ==
    \E i, j \in SubIds :
        /\ sreq[i].pc = "done" /\ sreq[i].answered = "echo" /\ sreq[i].appends = 1
        /\ sreq[j].pc = "done" /\ sreq[j].answered = "other" /\ sreq[j].appends = 0
        /\ verifiedSubscribers = <<SubOf(i)>>

\* C2: once every subscribe request has returned, the registry holds the
\* subscriber of each request that was echoed as many times as there are
\* echoed requests for it, so once for each of distinct callbacks: no
\* append is lost or overwritten, whatever the interleaving with the other
\* appends and with the snapshots of publish.
C2_NoLostAppend ==
    (\A i \in SubIds : sreq[i].pc = "done") =>
        /\ Len(verifiedSubscribers) = Cardinality(Echoed)
        /\ \A i \in Echoed :
             Count(SubOf(i)) = Cardinality({j \in Echoed : SubOf(j) = SubOf(i)})

\* two requests for distinct callbacks were both echoed, both have
\* returned, and a publish took its snapshot between the two appends
C2_Witness ==
    /\ \A i \in SubIds : sreq[i].pc = "done" /\ sreq[i].answered = "echo"
    /\ \A i, j \in SubIds : i # j => SubOf(i).callbackURL # SubOf(j).callbackURL
    /\ \A i \in SubIds : Count(SubOf(i)) = 1
    /\ \E p \in PubIds : preq[p].taken /\ Len(preq[p].snapshot) = 1

\* C3: the count a publish call reports is the length the registry had at
\* the instant the call copied it, whatever was appended since and whatever
\* became of the deliveries.
C3_CountIsSnapshotLength ==
    \A p \in Reported : preq[p].resp[1].count = Len(preq[p].snapshot)

\* a publish reported 1 although the registry has grown to 2 since its copy
\* and its one delivery has failed
C3_Witness ==
    \E p \in Reported :
        /\ preq[p].resp[1].count = 1
        /\ Len(verifiedSubscribers) = 2
        /\ Len(deliv[p]) = 1 /\ deliv[p][1].pc = "done" /\ deliv[p][1].received = 0

\* C4: the deliveries of a publish call go to the entries of its snapshot,
\* one goroutine per entry in the order of the copy, and to nothing else: a
\* subscriber appended after the copy gets no delivery from that call.
C4_TargetsAreSnapshot ==
    \A p \in PubIds :
        /\ Len(deliv[p]) <= Len(preq[p].snapshot)
        /\ \A k \in DOMAIN deliv[p] : deliv[p][k].sub = preq[p].snapshot[k]
        /\ preq[p].pc = "done" /\ preq[p].method = "GET" =>
               Len(deliv[p]) = Len(preq[p].snapshot)

\* a subscriber was admitted while a delivery of an earlier snapshot was in
\* flight, and that publish has returned without a delivery to it
C4_Witness ==
    \E p \in PubIds :
        /\ preq[p].pc = "done" /\ Len(preq[p].snapshot) = 1
        /\ deliv[p][1].pc = "post"
        /\ Len(verifiedSubscribers) = 2
        /\ verifiedSubscribers[2] # verifiedSubscribers[1]

\* the requests that have arrived and lack a callback or a topic (a body
\* that does not parse yields neither)
LacksCallbackOrTopic ==
    {i \in SubIds : /\ sreq[i].pc # "idle"
                    /\ \/ Get(sreq[i].body.pairs, "hub.callback") = ""
                       \/ Get(sreq[i].body.pairs, "hub.topic") = ""}

\* C5: a subscribe request whose callback or topic is missing or empty is
\* answered at once with a client error, 400 when it is a POST (405 when
\* its method is not POST), and it sends no challenge GET and appends nothing
\* to the registry.
C5_MissingFieldsRejected ==
    \A i \in LacksCallbackOrTopic :
        /\ sreq[i].pc = "done" /\ sreq[i].returned
        /\ Len(sreq[i].resp) = 1
        /\ sreq[i].resp[1].status \in {StatusBadRequest, StatusMethodNotAllowed}
        /\ sreq[i].method = "POST" => sreq[i].resp[1].status = StatusBadRequest
        /\ sreq[i].gets = 0
        /\ sreq[i].appends = 0

\* a POST without a callback and a POST with an empty topic were both
\* answered 400
C5_Witness ==
    \E i, j \in LacksCallbackOrTopic :
        /\ sreq[i].method = "POST" /\ sreq[i].body = NoCallbackBody
        /\ sreq[j].method = "POST" /\ sreq[j].body = EmptyTopicBody
        /\ sreq[i].resp[1].status = StatusBadRequest
        /\ sreq[j].resp[1].status = StatusBadRequest

\* C6: when every challenge GET sent so far was answered with status 404,
\* no subscriber has been admitted: the registry is empty and every publish
\* reports the count 0.
C6_NotFoundNotAdmitted ==
    (\A i \in SubIds : sreq[i].gets > 0 => sreq[i].status = 404) =>
        /\ verifiedSubscribers = <<>>
        /\ \A p \in Reported : preq[p].resp[1].count = 0

\* C7: a delivery POST in flight for the k-th entry of a publish call's
\* snapshot goes to that entry's callback URL, carries the payload of the
\* call as its body, and its X-Hub-Signature is "sha256=" followed by the
\* signature of that body under that entry's secret.
C7_DeliverySignedForEntry ==
    \A p \in PubIds : \A k \in DOMAIN deliv[p] :
        deliv[p][k].post # <<>> =>
            LET m == deliv[p][k].post[1]
                e == preq[p].snapshot[k]
            IN  /\ m.url = e.callbackURL
                /\ m.body = Marshal
                /\ m.contentType = "application/json"
                /\ m.signature = "sha256=" \o createSignature(e.secret, m.body)

\* the two deliveries of one publish are in flight, to two callbacks with
\* two secrets
C7_Witness ==
    \E p \in PubIds :
        /\ Len(deliv[p]) = 2
        /\ deliv[p][1].post # <<>> /\ deliv[p][2].post # <<>>
        /\ deliv[p][1].post[1].url # deliv[p][2].post[1].url
        /\ deliv[p][1].post[1].signature # deliv[p][2].post[1].signature

\* C8 as the spec states it: a delivery that has ended has reached its
\* subscriber at least once.
C8_AtLeastOnce ==
    \A p \in PubIds : \A k \in DOMAIN deliv[p] :
        deliv[p][k].pc = "done" => deliv[p][k].received >= 1

\* C8, amended: delivery is at most once.  A publish call that has returned
\* has started one delivery goroutine per entry of its snapshot; each
\* goroutine sends its POST once, the subscriber receives the payload at
\* most once, and a delivery that has ended has either been received once
\* or has ended in a transport error that was not retried.
C8_AtMostOnce ==
    \A p \in PubIds :
        /\ preq[p].pc = "done" /\ preq[p].method = "GET" =>
               Len(deliv[p]) = Len(preq[p].snapshot)
        /\ \A k \in DOMAIN deliv[p] :
             LET d == deliv[p][k]
             IN  /\ d.posts <= 1
                 /\ d.received <= d.posts
                 /\ d.pc \in {"post", "log", "done"} => d.posts = 1
                 /\ d.pc = "log" => d.received = 1

\* of the two deliveries of one publish, one has ended after a transport
\* error without reaching its subscriber, the other was received
C8_Witness ==
    \E p \in PubIds :
        /\ Len(deliv[p]) = 2
        /\ \E k, l \in DOMAIN deliv[p] :
             /\ deliv[p][k].pc = "done" /\ deliv[p][k].posts = 1
             /\ deliv[p][k].received = 0
             /\ deliv[p][l].pc = "done" /\ deliv[p][l].received = 1

\* C9: no task holds verifiedSubscribersMutex while it waits on the
\* network.  A subscribe task holds it only between Lock and Unlock around
\* the append, a publish task only around the copy and before it has
\* started any delivery; a task waiting for the answer to its challenge GET
\* does not hold it, and the delivery goroutines never do.
C9_NoLockAcrossNetwork ==
    /\ \A i \in SubIds :
         /\ sreq[i].pc = "awaitChallenge" => verifiedSubscribersMutex # SubTask(i)
         /\ verifiedSubscribersMutex = SubTask(i) => sreq[i].pc \in {"append", "unlock"}
    /\ \A p \in PubIds :
         verifiedSubscribersMutex = PubTask(p) =>
             preq[p].pc \in {"copy", "unlock"} /\ deliv[p] = <<>>
    /\ verifiedSubscribersMutex \in
           {NoTask} \cup {SubTask(i) : i \in SubIds} \cup {PubTask(p) : p \in PubIds}

\* the mutex is held for a copy while a subscribe task waits for the answer
\* to its challenge GET and a delivery POST of an earlier publish is in
\* flight
C9_Witness ==
    /\ \E p \in PubIds : verifiedSubscribersMutex = PubTask(p)
    /\ \E j \in SubIds : sreq[j].pc = "awaitChallenge"
    /\ \E p \in PubIds : \E k \in DOMAIN deliv[p] : deliv[p][k].pc = "post"

\* a step of the hub on behalf of subscribe task i that needs no answer
\* from the callback
HandlerStep(i) == VerifyLock(i) \/ VerifyAppend(i) \/ VerifyUnlock(i)

\* C10: while the answer to the challenge GET of a valid subscribe request
\* is outstanding, the response to the caller is complete or the handler
\* can go on towards completing it without that answer.
C10_ResponseIndependent ==
    \A i \in SubIds :
        sreq[i].pc = "awaitChallenge" => sreq[i].returned \/ ENABLED HandlerStep(i)

\* the subscribe task whose step from line 92 to line 93 this step is
Appender(i) == sreq[i].pc = "append" /\ sreq'[i].pc = "unlock"

\* C11: the registry is empty at the start and every step leaves it as it
\* is or appends one entry to it: no entry is removed, moved or changed.
\* The only step that changes it is the append of verifySubscriber, which
\* adds the subscriber of its task; no step of a publish task or of a
\* delivery changes it.
C11_AppendOnly ==
    /\ verifiedSubscribers = <<>>
    /\ [][/\ Len(verifiedSubscribers') >= Len(verifiedSubscribers)
          /\ SubSeq(verifiedSubscribers', 1, Len(verifiedSubscribers))
                 = verifiedSubscribers
          /\ verifiedSubscribers' # verifiedSubscribers =>
                 \E i \in SubIds :
                     /\ Appender(i)
                     /\ verifiedSubscribers' =
                            Append(verifiedSubscribers, sreq[i].sub)
          /\ (preq' # preq \/ deliv' # deliv) =>
                 verifiedSubscribers' = verifiedSubscribers]_vars

\* the registry has grown to two entries, the second appended after a
\* publish had copied the first and returned
C11_Witness ==
    /\ Len(verifiedSubscribers) = 2
    /\ \E p \in PubIds : preq[p].pc = "done" /\ preq[p].snapshot = <<verifiedSubscribers[1]>>

\* the subscribe requests that have arrived and passed the validation
Accepted ==
    {i \in SubIds : sreq[i].pc # "idle" /\ ReachesVerify(sreq[i].method, sreq[i].body)}

\* C12: no failure of a verification or of a delivery reaches an HTTP
\* caller.  What a subscribe request that passed the validation is answered
\* is the 200 acknowledgment and nothing else, while its verification runs
\* and after it has ended, whether in a transport error, a read error, a
\* mismatch or a match; a GET publish that has returned has answered 200
\* with the length of its snapshot, whatever became of its deliveries.
C12_FailuresNotSurfaced ==
    /\ \A i \in Accepted :
         sreq[i].resp = Response(StatusOK, "Subscription request received.")
    /\ \A p \in PubIds :
         preq[p].pc = "done" /\ preq[p].method = "GET" =>
             preq[p].resp =
                 <<[status |-> StatusOK,
                    text |-> "Content published to %d verified subscribers.\n",
                    count |-> Len(preq[p].snapshot)]>>

\* a verification has ended in a transport error and another in a match,
\* both requests have their acknowledgment, and a publish has answered
\* after its delivery failed
C12_Witness ==
    /\ \E i, j \in Accepted :
         /\ sreq[i].pc = "done" /\ sreq[i].answered = "transport error"
         /\ sreq[j].pc = "done" /\ sreq[j].answered = "echo"
    /\ \E p \in Reported :
         /\ preq[p].resp[1].count = 1
         /\ deliv[p][1].pc = "done" /\ deliv[p][1].received = 0

\* C13: a request with the wrong method is answered 405 and does nothing
\* else.  A request to "/" that is not a POST is answered 405 whatever its
\* body, valid or not, sends no challenge GET and appends nothing; a request
\* to "/publish" that is not a GET is answered 405, takes neither the mutex
\* nor a snapshot, and starts no delivery.
C13_WrongMethodRefused ==
    /\ \A i \in SubIds :
         sreq[i].pc # "idle" /\ sreq[i].method # "POST" =>
             /\ sreq[i].pc = "done" /\ sreq[i].returned
             /\ sreq[i].resp = Response(StatusMethodNotAllowed,
                                        "Only POST method is allowed")
             /\ sreq[i].gets = 0
             /\ sreq[i].appends = 0
    /\ \A p \in PubIds :
         preq[p].pc # "idle" /\ preq[p].method # "GET" =>
             /\ preq[p].pc = "done" /\ preq[p].returned
             /\ preq[p].resp = Response(StatusMethodNotAllowed, "Method not allowed")
             /\ ~preq[p].taken
             /\ deliv[p] = <<>>
             /\ verifiedSubscribersMutex # PubTask(p)

\* a GET to "/" with valid fields and a POST to "/publish" were both
\* refused, the latter while the registry held a subscriber
C13_Witness ==
    /\ \E i \in SubIds :
         /\ sreq[i].method = "GET" /\ sreq[i].body = ValidBody1
         /\ sreq[i].resp[1].status = StatusMethodNotAllowed
    /\ \E p \in PubIds :
         /\ preq[p].method = "POST"
         /\ preq[p].resp[1].status = StatusMethodNotAllowed
    /\ Len(verifiedSubscribers) = 1

\* the subscribe tasks that have gone through line 92
Appended == {i \in SubIds : sreq[i].appends = 1}

\* the number of elements of the sequence q that satisfy Is
Occurrences(q, Is(_)) == Cardinality({k \in DOMAIN q : Is(q[k])})

\* C14: every successful verification appends, whether or not the registry
\* already holds an equal subscriber: the registry holds a subscriber as
\* many times as verifications of it have appended.  A publish that has
\* returned has reported the length of its snapshot, duplicates included,
\* and has started as many deliveries of a subscriber as its snapshot holds
\* entries equal to it.
C14_NoDeduplication ==
    /\ \A i \in Appended :
         Count(SubOf(i)) = Cardinality({j \in Appended : SubOf(j) = SubOf(i)})
    /\ \A p \in Reported :
         /\ preq[p].resp[1].count = Len(preq[p].snapshot)
         /\ \A k \in DOMAIN preq[p].snapshot :
              LET e == preq[p].snapshot[k]
                  IsE(x) == x = e
                  ForE(d) == d.sub = e
              IN  Occurrences(deliv[p], ForE) = Occurrences(preq[p].snapshot, IsE)

\* two verifications of the same callback, secret and topic have both
\* succeeded, the registry holds that subscriber twice, and a publish has
\* reported 2 and both its deliveries have sent their POST to that callback
C14_Witness ==
    /\ \A i \in SubIds : sreq[i].pc = "done" /\ sreq[i].body = ValidBody1
    /\ Len(verifiedSubscribers) = 2
    /\ verifiedSubscribers[1] = verifiedSubscribers[2]
    /\ \E p \in Reported :
         /\ preq[p].resp[1].count = 2
         /\ Len(deliv[p]) = 2
         /\ \A k \in DOMAIN deliv[p] :
              deliv[p][k].posts = 1 /\ deliv[p][k].sub = verifiedSubscribers[1]

\* C15 as the spec states it: every subscribe request that passed the
\* validation has sent exactly one challenge GET.
C15_ExactlyOneGet ==
    \A i \in Accepted : sreq[i].gets = 1

\* C15, amended: nothing is sent twice.  A subscribe request that passed
\* the validation sends one challenge GET, or none when the generation of
\* its challenge failed, and never a second one whatever the answer; a
\* request that was refused sends none.  A publish that has returned has
\* started one goroutine per entry of its snapshot, and a goroutine that
\* has got past client.Do has sent one POST, answered or not.
C15_NoRetry ==
    /\ \A i \in SubIds :
         /\ sreq[i].gets <= 1
         /\ sreq[i].gets = 1 => i \in Accepted
         /\ i \in Accepted /\ sreq[i].gets = 0 =>
                sreq[i].pc = "done" /\ sreq[i].answered = "none"
    /\ \A p \in PubIds :
         /\ preq[p].pc = "done" /\ preq[p].method = "GET" =>
                Len(deliv[p]) = Len(preq[p].snapshot)
         /\ \A k \in DOMAIN deliv[p] :
              /\ deliv[p][k].posts = (IF deliv[p][k].pc = "start" THEN 0 ELSE 1)
              /\ deliv[p][k].pc = "post" <=> deliv[p][k].post # <<>>

\* a verification has ended in a transport error after its one GET, and a
\* delivery has ended in a transport error after its one POST
C15_Witness ==
    /\ \E i \in Accepted :
         /\ sreq[i].pc = "done" /\ sreq[i].answered = "transport error"
         /\ sreq[i].gets = 1
    /\ \E p \in PubIds : \E k \in DOMAIN deliv[p] :
         /\ deliv[p][k].pc = "done" /\ deliv[p][k].received = 0
         /\ deliv[p][k].posts = 1

\* every entry of the snapshot of publish p has had its POST sent
AllPosted(p) ==
    /\ Len(deliv[p]) = Len(preq[p].snapshot)
    /\ \A k \in DOMAIN deliv[p] : deliv[p][k].posts = 1

\* C16: the deliveries of a publish call do not wait for each other.  A
\* goroutine that has not sent its POST can send it, whatever the state of
\* the other deliveries, failed, unanswered or not started; and with the
\* hub's own steps scheduled fairly, once a publish has taken its snapshot
\* the POST to every entry of it is eventually sent, though no callback
\* ever answers.
C16_DeliveriesIndependent ==
    /\ [](\A p \in PubIds : \A k \in DOMAIN deliv[p] :
             deliv[p][k].pc = "start" => ENABLED DeliverySend(p, k))
    /\ \A p \in PubIds : preq[p].taken ~> AllPosted(p)

\* the POST to the second entry is in flight before the goroutine of the
\* first has run, and in another publish the second was answered while the
\* first is still unanswered
C16_Witness ==
    \E p, q \in PubIds :
        /\ Len(deliv[p]) = 2 /\ Len(deliv[q]) = 2
        /\ deliv[p][1].pc = "start" /\ deliv[p][2].pc = "post"
        /\ deliv[q][1].pc = "post" /\ deliv[q][2].pc = "done"

\* C17: a publish call returns its response without waiting for any
\* delivery.  Once the loop over the snapshot has ended, the handler can
\* write its response whatever the state of the deliveries; and with the
\* hub's own steps scheduled fairly, every publish request that has arrived
\* gets its response and its handler returns, though no callback ever
\* answers a delivery.
C17_PublishReturns ==
    /\ [](\A p \in PubIds :
             (preq[p].pc = "range" /\ Remaining(preq[p]) = <<>>)
                => ENABLED PublishRespond(p))
    /\ \A p \in PubIds :
          (preq[p].pc # "idle") ~> (preq[p].returned /\ preq[p].pc = "done")

\* the response, with a count of two, has been returned and neither of the
\* two deliveries has started
C17_Witness ==
    \E p \in PubIds :
        /\ preq[p].returned
        /\ preq[p].resp # <<>> /\ preq[p].resp[1].status = StatusOK
        /\ preq[p].resp[1].count = 2
        /\ Len(deliv[p]) = 2
        /\ \A k \in DOMAIN deliv[p] : deliv[p][k].pc = "start" /\ deliv[p][k].posts = 0

\* the requests that have arrived with a callback and a topic and with a
\* secret that is missing or empty
LacksSecretOnly ==
    {i \in SubIds : /\ sreq[i].pc # "idle"
                    /\ ~sreq[i].body.parseErr
                    /\ Get(sreq[i].body.pairs, "hub.callback") # ""
                    /\ Get(sreq[i].body.pairs, "hub.topic") # ""
                    /\ Get(sreq[i].body.pairs, "hub.secret") = ""}

\* C18: a subscribe request with a callback and a topic whose secret is
\* missing or empty is answered at once with 400 (405 when its method is not
\* POST), sends no challenge GET and appends nothing to the registry; and
\* no entry of the registry has an empty callbackURL, topic or secret.
C18_SecretRequired ==
    /\ \A i \in LacksSecretOnly :
        /\ sreq[i].pc = "done" /\ sreq[i].returned
        /\ Len(sreq[i].resp) = 1
        /\ sreq[i].resp[1].status \in {StatusBadRequest, StatusMethodNotAllowed}
        /\ sreq[i].method = "POST" => sreq[i].resp[1].status = StatusBadRequest
        /\ sreq[i].gets = 0
        /\ sreq[i].appends = 0
    /\ \A k \in DOMAIN verifiedSubscribers :
        /\ verifiedSubscribers[k].callbackURL # ""
        /\ verifiedSubscribers[k].topic # ""
        /\ verifiedSubscribers[k].secret # ""

\* a POST without a secret and a POST with an empty secret were both
\* answered 400
C18_Witness ==
    \E i, j \in LacksSecretOnly :
        /\ sreq[i].method = "POST" /\ sreq[i].body = NoSecretBody
        /\ sreq[j].method = "POST" /\ sreq[j].body = EmptySecretBody
        /\ sreq[i].resp[1].status = StatusBadRequest
        /\ sreq[j].resp[1].status = StatusBadRequest

\* the delivery attempts whose POST has ended, with an answer or with a
\* transport error
Attempted ==
    {pk \in PubIds \X (1..(MaxSubscribe + 1)) :
        /\ pk[2] \in DOMAIN deliv[pk[1]]
        /\ deliv[pk[1]][pk[2]].posts = 1
        /\ deliv[pk[1]][pk[2]].pc \in {"log", "done"}}

\* C19 as stated: every delivery attempt whose POST has ended, answered or
\* failed, has been followed by one fetch of the collaborator's log.
C19_LogAfterEveryAttempt ==
    \A pk \in Attempted : deliv[pk[1]][pk[2]].logs = 1

\* C19: the collaborator's log is fetched once after each delivery attempt
\* whose POST was answered, and not at all after an attempt whose POST
\* ended in a transport error.
C19_LogAfterAnsweredPost ==
    \A pk \in Attempted :
        /\ deliv[pk[1]][pk[2]].received = 1 => deliv[pk[1]][pk[2]].logs = 1
        /\ deliv[pk[1]][pk[2]].received = 0 =>
              /\ deliv[pk[1]][pk[2]].logs = 0
              /\ deliv[pk[1]][pk[2]].pc = "done"

\* of the two deliveries of one publish, both ended, one was answered and
\* was followed by a fetch of the log, the other failed and was not
C19_Witness ==
    \E p \in PubIds :
        /\ Len(deliv[p]) = 2
        /\ \A k \in DOMAIN deliv[p] : deliv[p][k].pc = "done" /\ deliv[p][k].posts = 1
        /\ deliv[p][1].received = 1 /\ deliv[p][1].logs = 1
        /\ deliv[p][2].received = 0 /\ deliv[p][2].logs = 0

\* the tasks between Lock() and Unlock(): the places where the code reads
\* or writes verifiedSubscribers
InCriticalSection ==
    {SubTask(i) : i \in {j \in SubIds : sreq[j].pc \in {"append", "unlock"}}}
    \cup {PubTask(p) : p \in {q \in PubIds : preq[q].pc \in {"copy", "unlock"}}}

\* the tasks blocked in Lock()
Waiting ==
    {SubTask(i) : i \in {j \in SubIds : sreq[j].pc = "lock"}}
    \cup {PubTask(p) : p \in {q \in PubIds : preq[q].pc = "lock"}}

\* the step the holder of the mutex takes next needs nothing but the
\* holder itself
HolderCanStep ==
    /\ \A i \in SubIds : verifiedSubscribersMutex = SubTask(i) =>
          ENABLED (VerifyAppend(i) \/ VerifyUnlock(i))
    /\ \A p \in PubIds : verifiedSubscribersMutex = PubTask(p) =>
          ENABLED (PublishCopy(p) \/ PublishUnlock(p))

\* C20: the registry is read and written only by the task that holds
\* verifiedSubscribersMutex; at most one task holds it, and the holder is
\* the one task between its Lock() and its Unlock(); the holder's next step
\* is always one it can take by itself and a task that has returned does
\* not hold the mutex; so, with the hub's own steps scheduled fairly, again
\* and again the mutex is free and no task waits in Lock(): the mutex is
\* never held forever and no task waits for it forever.
C20_RegistryLock ==
    /\ [](/\ InCriticalSection =
                IF verifiedSubscribersMutex = NoTask THEN {}
                ELSE {verifiedSubscribersMutex}
          /\ HolderCanStep
          /\ \A i \in SubIds : sreq[i].returned => verifiedSubscribersMutex # SubTask(i)
          /\ \A p \in PubIds : preq[p].returned => verifiedSubscribersMutex # PubTask(p))
    /\ [][verifiedSubscribers' # verifiedSubscribers =>
             /\ verifiedSubscribersMutex # NoTask
             /\ verifiedSubscribersMutex' = verifiedSubscribersMutex]_vars
    /\ []<>(verifiedSubscribersMutex = NoTask /\ Waiting = {})

\* a verification holds the mutex while another verification and a publish
\* wait in Lock()
C20_Witness ==
    \E i, j \in SubIds : \E p \in PubIds :
        /\ verifiedSubscribersMutex = SubTask(i)
        /\ SubTask(j) \in Waiting
        /\ PubTask(p) \in Waiting
====
